---- MODULE Spec2Model ----
(***************************************************************************)
(* MinioFileProviderService (backend/src/modules/minio-file/service.ts):   *)
(* the file provider that forwards upload / delete / presign / read calls  *)
(* to a MinIO client, together with the object store the client talks to.  *)
(*                                                                         *)
(* Strings are sequences of one-character strings, buffers are sequences   *)
(* of byte values.  A JavaScript undefined/null value is Undefined.        *)
(***************************************************************************)
EXTENDS Integers, Sequences, FiniteSets, TLC

VARIABLES
    config_,         \* this.config_, the options as given
    bucket,          \* this.bucket
    publicEndpoint,  \* this.publicEndpoint
    bucketExists,    \* store: the configured bucket exists
    policy,          \* store: policy of the configured bucket
    objects,         \* store: key -> bytes of the objects in the bucket
    init,            \* the constructor's background initializeBucket()
    op,              \* the last call that returned or threw, as observed
    del,             \* the frame of the delete() call in progress
    uploaded         \* key -> content and ULID of the last successful
                     \* upload() of that key, no delete() of it since

vars == <<config_, bucket, publicEndpoint, bucketExists, policy, objects, init, op,
          del, uploaded>>

(***************************************************************************)
(* Bounds                                                                  *)
(***************************************************************************)
MaxObjects == 2      \* objects the store holds at most
MaxList == 3         \* longest list handed to delete()

(***************************************************************************)
(* Values                                                                  *)
(***************************************************************************)
Undefined == <<"undefined">>

\* Falsy with the empty string taken for a value
Falsy_EmptyIsTruthy(v) == v = Undefined

\* Falsy with undefined taken for a value
Falsy_UndefinedIsTruthy(v) == v = <<>>

\* !v for a string-valued v: undefined, null and '' are falsy
Falsy(v) == v = Undefined \/ v = <<>>

DEFAULT_BUCKET == <<"medusa-media">>

PresignedDownloadExpiry == 24 * 60 * 60

\* the upload expiry set to the download expiry
PresignedUploadExpiry_Day == 24 * 60 * 60

PresignedUploadExpiry == 15 * 60

\* `${endpointUrl.protocol}//${endpointUrl.host}` of the configured endPoint
InternalEndpointUrl == <<"https://minio.internal">>

\* the provider options a deployment passes to the constructor
ProviderOptions ==
    { [bucket |-> Undefined, publicEndpoint |-> <<"https://cdn.example">>],
      [bucket |-> <<"shop-media">>, publicEndpoint |-> Undefined] }

\* values ulid() returns; a ULID is one token of the key
Ulids == {<<"01HA">>, <<"01HB">>}

FileNames ==
    { Undefined,
      <<>>,
      <<"a", ".", "p">>,
      <<"d", "/", "a", ".", "p">>,
      <<".", "h">> }

\* binary strings as sequences of UTF-16 code units
Contents == { <<65>>, <<255, 300>> }

\* file.content left undefined (no code unit is negative)
UndefinedContent == <<-1>>

NetworkError == "NetworkError"

NoFault == "none"

Faults == {NoFault, NetworkError}

(***************************************************************************)
(* Pure helpers of the service                                             *)
(***************************************************************************)
Max(S) == CHOOSE x \in S : \A y \in S : y <= x

\* path.parse(filename) of the posix path module: name and ext of the last
\* path segment.  ext starts at the last '.' of the segment, unless that
\* '.' is the segment's first character or the segment is '..'.
PathParse(p) ==
    LET nonSlash == {i \in 1..Len(p) : p[i] # "/"}
        end == IF nonSlash = {} THEN 0 ELSE Max(nonSlash)
        slashes == {i \in 1..end : p[i] = "/"}
        startPart == IF slashes = {} THEN 1 ELSE Max(slashes) + 1
        base == SubSeq(p, startPart, end)
        dots == {i \in 1..Len(base) : base[i] = "."}
        startDot == IF dots = {} THEN 0 ELSE Max(dots)
    IN  IF startDot = 0 \/ startDot = 1 \/ base = <<".", ".">>
        THEN [name |-> base, ext |-> <<>>]
        ELSE [name |-> SubSeq(base, 1, startDot - 1),
              ext |-> SubSeq(base, startDot, Len(base))]

\* FileKey without the ULID
FileKey_NoUlid(filename, u) ==
    LET parsedFilename == PathParse(filename)
    IN  parsedFilename.name \o parsedFilename.ext

\* `${parsedFilename.name}-${ulid()}${parsedFilename.ext}`
FileKey(filename, u) ==
    LET parsedFilename == PathParse(filename)
    IN  parsedFilename.name \o <<"-">> \o u \o parsedFilename.ext

\* Buffer.from(content, 'binary'): one byte per code unit, its low 8 bits
BufferFrom(content) == [i \in 1..Len(content) |-> content[i] % 256]

\* `${this.publicEndpoint}/${this.bucket}/${fileKey}`
PublicUrl(endpoint, b, fileKey) == endpoint \o <<"/">> \o b \o <<"/">> \o fileKey

\* the fields the constructor sets from its options
Constructor(options) ==
    [bucket |-> IF Falsy(options.bucket) THEN DEFAULT_BUCKET
                ELSE options.bucket,
     publicEndpoint |-> IF Falsy(options.publicEndpoint)
                        THEN InternalEndpointUrl
                        ELSE options.publicEndpoint]

\* new MedusaError(type, message)
MedusaError(type, prefix, cause) ==
    [kind |-> "MedusaError", type |-> type, prefix |-> prefix, cause |-> cause]

NoError == [kind |-> "none", type |-> "none", prefix |-> "", cause |-> ""]

Log(level, text) == [level |-> level, text |-> text]

\* a call of a method of this.client as issued by the service, with the
\* client's answer res
ClientCall(method, b, key, expiry, content, res) ==
    [method |-> method, bucket |-> b, key |-> key, expiry |-> expiry,
     content |-> content, ok |-> res.ok, message |-> res.message]

(***************************************************************************)
(* The MinIO client and the object store behind it.  fault is a failure    *)
(* the transport injects into the call; without one the store answers.     *)
(***************************************************************************)
ClientOk(value) == [ok |-> TRUE, message |-> "", value |-> value]

ClientError(message) == [ok |-> FALSE, message |-> message, value |-> <<>>]

\* client.bucketExists(bucket)
BucketExistsCall(fault) ==
    IF fault # NoFault THEN ClientError(fault) ELSE ClientOk(bucketExists)

\* client.makeBucket(bucket)
MakeBucketCall(fault) ==
    IF fault # NoFault THEN ClientError(fault)
    ELSE IF bucketExists THEN ClientError("BucketAlreadyOwnedByYou")
    ELSE ClientOk(TRUE)

\* client.setBucketPolicy(bucket, policy)
SetBucketPolicyCall(fault) ==
    IF fault # NoFault THEN ClientError(fault)
    ELSE IF ~bucketExists THEN ClientError("NoSuchBucket")
    ELSE ClientOk(TRUE)

\* client.putObject(bucket, key, content, size, metadata)
PutObjectCall(fault) ==
    IF fault # NoFault THEN ClientError(fault)
    ELSE IF ~bucketExists THEN ClientError("NoSuchBucket")
    ELSE ClientOk(TRUE)

\* client.removeObject(bucket, key): removing a key that names no object
\* succeeds and changes nothing
RemoveObjectCall(fault) ==
    IF fault # NoFault THEN ClientError(fault)
    ELSE IF ~bucketExists THEN ClientError("NoSuchBucket")
    ELSE ClientOk(TRUE)

\* client.getObject(bucket, key): the object's bytes as a stream of chunks
GetObjectCall(key, fault) ==
    IF fault # NoFault THEN ClientError(fault)
    ELSE IF ~bucketExists THEN ClientError("NoSuchBucket")
    ELSE IF key \notin DOMAIN objects THEN ClientError("NoSuchKey")
    ELSE ClientOk([i \in 1..Len(objects[key]) |-> <<objects[key][i]>>])

\* client.presignedGetObject / presignedPutObject(bucket, key, expiry)
PresignedCall(method, b, key, expiry, fault) ==
    IF fault # NoFault THEN ClientError(fault)
    ELSE ClientOk([signed |-> method, bucket |-> b, key |-> key,
                   expiry |-> expiry])

\* the store after a successful putObject / removeObject
StorePut(store, key, content) ==
    [k \in DOMAIN store \cup {key} |-> IF k = key THEN content ELSE store[k]]

StoreRemove(store, key) == [k \in DOMAIN store \ {key} |-> store[k]]

EmptyStore == [k \in {} |-> <<>>]

\* Buffer.concat(chunks)
RECURSIVE BufferConcat(_)
BufferConcat(chunks) ==
    IF chunks = <<>> THEN <<>>
    ELSE Head(chunks) \o BufferConcat(Tail(chunks))

(***************************************************************************)
(* Arguments the callers hand to the service                               *)
(***************************************************************************)
UnknownKey == <<"n", "o", "n", "e">>

NilFile ==
    [isNil |-> TRUE, filename |-> Undefined, content |-> UndefinedContent]

UploadArgs ==
    {NilFile} \cup
    {[isNil |-> FALSE, filename |-> f, content |-> <<65>>] :
        f \in {g \in FileNames : Falsy(g)}} \cup
    {[isNil |-> FALSE, filename |-> f, content |-> c] :
        f \in {g \in FileNames : ~Falsy(g)},
        c \in Contents \cup {UndefinedContent}}

NilDTO == [isNil |-> TRUE, fileKey |-> Undefined]

FileDTO(key) == [isNil |-> FALSE, fileKey |-> key]

\* ProviderGetFileDTO / ProviderDeleteFileDTO values in the current state
FileArgs ==
    {NilDTO} \cup
    {FileDTO(k) : k \in {Undefined, <<>>, UnknownKey} \cup DOMAIN objects}

NilUploadUrlDTO == [isNil |-> TRUE, filename |-> Undefined]

UploadUrlArgs ==
    {NilUploadUrlDTO} \cup {[isNil |-> FALSE, filename |-> f] : f \in FileNames}

\* fileData?.fileKey, fileData?.filename
OptFileKey(fileData) == IF fileData.isNil THEN Undefined ELSE fileData.fileKey

OptFilename(fileData) == IF fileData.isNil THEN Undefined ELSE fileData.filename

RECURSIVE SeqsUpTo(_, _)
SeqsUpTo(S, n) ==
    IF n = 0 THEN {<<>>}
    ELSE LET shorter == SeqsUpTo(S, n - 1)
         IN  shorter \cup {Append(q, x) : q \in shorter, x \in S}

\* the elements of the arrays handed to delete()
ListItems ==
    {FileDTO(k) : k \in {Undefined, UnknownKey} \cup DOMAIN objects}

\* delete() takes one DTO (single) or an array of them (list); isArray
\* tells which of the two the argument is
DeleteArgs ==
    {[isArray |-> FALSE, single |-> f, list |-> <<>>] : f \in FileArgs} \cup
    {[isArray |-> TRUE, single |-> NilDTO, list |-> q] :
        q \in SeqsUpTo(ListItems, MaxList)}

(***************************************************************************)
(* State after construction                                                *)
(***************************************************************************)
OpRecord(name, arg, error, result, calls, logs) ==
    [name |-> name, arg |-> arg, error |-> error, result |-> result,
     calls |-> calls, logs |-> logs]

NoOp == OpRecord("none", NilDTO, NoError, <<>>, <<>>, <<>>)

NoDelete ==
    [active |-> FALSE, arg |-> <<>>, files |-> <<>>, idx |-> 1,
     calls |-> <<>>, logs |-> <<>>]

Init ==
    /\ \E options \in ProviderOptions :
          /\ config_ = options
          /\ bucket = Constructor(options).bucket
          /\ publicEndpoint = Constructor(options).publicEndpoint
    /\ bucketExists \in BOOLEAN
    /\ policy \in (IF bucketExists THEN {"none", "public-read"} ELSE {"none"})
    /\ objects = EmptyStore
    /\ init = [pc |-> "bucketExists", answered |-> "none", created |-> FALSE,
               outcome |-> "pending", calls |-> <<>>, logs |-> <<>>]
    /\ op = NoOp
    /\ del = NoDelete
    /\ uploaded = EmptyStore

(***************************************************************************)
(* initializeBucket(), started and not awaited by the constructor          *)
(***************************************************************************)
\* the catch block of initializeBucket followed by the constructor's .catch
InitFailed(calls) ==
    [init EXCEPT !.pc = "failed", !.outcome = "rejected-and-logged",
                 !.calls = calls,
                 !.logs = @ \o <<Log("error", "Error initializing bucket"),
                                 Log("error", "Failed to initialize MinIO bucket")>>]

InitBucketExists(fault) ==
    /\ init.pc = "bucketExists"
    /\ LET res == BucketExistsCall(fault)
           calls == Append(init.calls, [method |-> "bucketExists", ok |-> res.ok])
       IN  init' = IF ~res.ok THEN InitFailed(calls)
                   ELSE IF ~res.value
                   THEN [init EXCEPT !.pc = "makeBucket", !.answered = "false",
                                     !.calls = calls]
                   ELSE [init EXCEPT !.pc = "setPolicyExisting",
                                     !.answered = "true", !.calls = calls,
                                     !.logs = Append(@, Log("info", "Using existing bucket"))]
    /\ UNCHANGED <<config_, bucket, publicEndpoint, bucketExists, policy, objects, op,
                   del, uploaded>>

InitMakeBucket(fault) ==
    /\ init.pc = "makeBucket"
    /\ LET res == MakeBucketCall(fault)
           calls == Append(init.calls, [method |-> "makeBucket", ok |-> res.ok])
       IN  /\ init' = IF ~res.ok THEN InitFailed(calls)
                      ELSE [init EXCEPT !.pc = "setPolicyNew", !.created = TRUE,
                                        !.calls = calls,
                                        !.logs = Append(@, Log("info", "Created bucket"))]
           /\ bucketExists' = (bucketExists \/ res.ok)
    /\ UNCHANGED <<config_, bucket, publicEndpoint, policy, objects, op, del, uploaded>>

InitSetPolicyNew(fault) ==
    /\ init.pc = "setPolicyNew"
    /\ LET res == SetBucketPolicyCall(fault)
           calls == Append(init.calls, [method |-> "setBucketPolicy", ok |-> res.ok])
       IN  /\ init' = IF ~res.ok THEN InitFailed(calls)
                      ELSE [init EXCEPT !.pc = "done", !.outcome = "resolved",
                                        !.calls = calls,
                                        !.logs = Append(@, Log("info", "Set public read policy"))]
           /\ policy' = IF res.ok THEN "public-read" ELSE policy
    /\ UNCHANGED <<config_, bucket, publicEndpoint, bucketExists, objects, op, del,
                   uploaded>>

\* InitSetPolicyExisting without the inner try/catch
InitSetPolicyExisting_Throws(fault) ==
    /\ init.pc = "setPolicyExisting"
    /\ LET res == SetBucketPolicyCall(fault)
           calls == Append(init.calls, [method |-> "setBucketPolicy", ok |-> res.ok])
       IN  /\ init' = IF ~res.ok THEN InitFailed(calls)
                      ELSE [init EXCEPT
                              !.pc = "done", !.outcome = "resolved",
                              !.calls = calls,
                              !.logs = Append(@, Log("info", "Updated public read policy"))]
           /\ policy' = IF res.ok THEN "public-read" ELSE policy
    /\ UNCHANGED <<config_, bucket, publicEndpoint, bucketExists, objects, op, del,
                   uploaded>>

InitSetPolicyExisting(fault) ==
    /\ init.pc = "setPolicyExisting"
    /\ LET res == SetBucketPolicyCall(fault)
           calls == Append(init.calls, [method |-> "setBucketPolicy", ok |-> res.ok])
       IN  /\ init' = [init EXCEPT
                          !.pc = "done", !.outcome = "resolved", !.calls = calls,
                          !.logs = Append(@,
                              IF res.ok
                              THEN Log("info", "Updated public read policy")
                              ELSE Log("warn", "Failed to update policy"))]
           /\ policy' = IF res.ok THEN "public-read" ELSE policy
    /\ UNCHANGED <<config_, bucket, publicEndpoint, bucketExists, objects, op, del,
                   uploaded>>

(***************************************************************************)
(* The operations of the provider.  Each has one await, the client call;   *)
(* the action is the whole call, taken when its client call reaches the    *)
(* store.                                                                  *)
(***************************************************************************)
StoreUnchanged == UNCHANGED <<bucketExists, policy, objects, uploaded>>

Rejected(name, arg, message) ==
    OpRecord(name, arg, MedusaError("INVALID_DATA", message, ""), <<>>, <<>>, <<>>)

\* Wrapped letting the client's error through as it is
Wrapped_Raw(name, arg, prefix, cause, calls) ==
    OpRecord(name, arg,
             [kind |-> "ClientError", type |-> "none", prefix |-> "",
              cause |-> cause],
             <<>>, calls, <<Log("error", prefix)>>)

\* the catch block shared by the operations: log, then throw the wrapper
Wrapped(name, arg, prefix, cause, calls) ==
    OpRecord(name, arg, MedusaError("UNEXPECTED_STATE", prefix, cause), <<>>,
             calls, <<Log("error", prefix)>>)

\* UploadOutcome not looking at the answer of putObject
UploadOutcome_IgnoresFailure(file, fileKey, u, call, res) ==
    OpRecord("upload", file, NoError,
             [url |-> PublicUrl(publicEndpoint, bucket, fileKey),
              key |-> fileKey, ulid |-> u],
             <<call>>,
             <<Log("info", "Successfully uploaded file"),
               Log("info", "Generated public URL")>>)

\* what upload() returns or throws once putObject has answered res
UploadOutcome(file, fileKey, u, call, res) ==
    IF ~res.ok
    THEN Wrapped("upload", file, "Failed to upload file: ", res.message, <<call>>)
    ELSE OpRecord("upload", file, NoError,
                  [url |-> PublicUrl(publicEndpoint, bucket, fileKey),
                   key |-> fileKey, ulid |-> u],
                  <<call>>,
                  <<Log("info", "Successfully uploaded file"),
                    Log("info", "Generated public URL")>>)

Upload(file, u, fault) ==
    /\ IF file.isNil
       THEN /\ op' = Rejected("upload", file, "No file provided")
            /\ StoreUnchanged
       ELSE IF Falsy(file.filename)
       THEN /\ op' = Rejected("upload", file, "No filename provided")
            /\ StoreUnchanged
       ELSE IF file.content = UndefinedContent
       THEN \* Buffer.from(undefined) throws inside the try
            /\ op' = Wrapped("upload", file, "Failed to upload file: ",
                             "TypeError", <<>>)
            /\ StoreUnchanged
       ELSE LET fileKey == FileKey(file.filename, u)
                content == BufferFrom(file.content)
                res == PutObjectCall(fault)
                call == ClientCall("putObject", bucket, fileKey, 0, content, res)
            IN  /\ fileKey \in DOMAIN objects
                   \/ Cardinality(DOMAIN objects) < MaxObjects
                /\ op' = UploadOutcome(file, fileKey, u, call, res)
                /\ objects' = IF res.ok THEN StorePut(objects, fileKey, content)
                              ELSE objects
                /\ uploaded' = IF res.ok
                               THEN StorePut(uploaded, fileKey,
                                             [content |-> content, ulid |-> u])
                               ELSE uploaded
                /\ UNCHANGED <<bucketExists, policy>>
    /\ UNCHANGED <<config_, bucket, publicEndpoint, init, del>>

GetPresignedDownloadUrl(fileData, fault) ==
    /\ IF Falsy(OptFileKey(fileData))
       THEN op' = Rejected("getPresignedDownloadUrl", fileData, "No file key provided")
       ELSE LET res == PresignedCall("GET", bucket, fileData.fileKey,
                                     PresignedDownloadExpiry, fault)
                call == ClientCall("presignedGetObject", bucket, fileData.fileKey,
                                   PresignedDownloadExpiry, <<>>, res)
            IN  op' = IF ~res.ok
                      THEN Wrapped("getPresignedDownloadUrl", fileData,
                                   "Failed to generate presigned URL: ",
                                   res.message, <<call>>)
                      ELSE OpRecord("getPresignedDownloadUrl", fileData, NoError,
                                    res.value, <<call>>,
                                    <<Log("info", "Generated presigned URL")>>)
    /\ UNCHANGED <<config_, bucket, publicEndpoint, init, del>>
    /\ StoreUnchanged

GetPresignedUploadUrl(fileData, fault) ==
    /\ IF Falsy(OptFilename(fileData))
       THEN op' = Rejected("getPresignedUploadUrl", fileData, "No filename provided")
       ELSE LET fileKey == fileData.filename
                res == PresignedCall("PUT", bucket, fileKey,
                                     PresignedUploadExpiry, fault)
                call == ClientCall("presignedPutObject", bucket, fileKey,
                                   PresignedUploadExpiry, <<>>, res)
            IN  op' = IF ~res.ok
                      THEN Wrapped("getPresignedUploadUrl", fileData,
                                   "Failed to generate presigned upload URL: ",
                                   res.message, <<call>>)
                      ELSE OpRecord("getPresignedUploadUrl", fileData, NoError,
                                    [url |-> res.value, key |-> fileKey],
                                    <<call>>, <<>>)
    /\ UNCHANGED <<config_, bucket, publicEndpoint, init, del>>
    /\ StoreUnchanged

\* streamFault: the 'error' event of the stream getObject returned
GetAsBuffer(fileData, fault, streamFault) ==
    /\ IF Falsy(OptFileKey(fileData))
       THEN op' = Rejected("getAsBuffer", fileData, "No file key provided")
       ELSE LET stream == GetObjectCall(fileData.fileKey, fault)
                res == IF stream.ok /\ streamFault # NoFault
                       THEN ClientError(streamFault)
                       ELSE stream
                call == ClientCall("getObject", bucket, fileData.fileKey, 0,
                                   <<>>, res)
            IN  op' = IF ~res.ok
                      THEN Wrapped("getAsBuffer", fileData,
                                   "Failed to get buffer: ", res.message,
                                   <<call>>)
                      ELSE OpRecord("getAsBuffer", fileData, NoError,
                                    BufferConcat(res.value), <<call>>,
                                    <<Log("info", "Retrieved buffer")>>)
    /\ UNCHANGED <<config_, bucket, publicEndpoint, init, del>>
    /\ StoreUnchanged

\* GetDownloadStream asking the client again after a failure
GetDownloadStream_Retry(fileData, fault) ==
    /\ IF Falsy(OptFileKey(fileData))
       THEN op' = Rejected("getDownloadStream", fileData, "No file key provided")
       ELSE LET res == GetObjectCall(fileData.fileKey, fault)
                call == ClientCall("getObject", bucket, fileData.fileKey, 0,
                                   <<>>, res)
            IN  op' = IF ~res.ok
                      THEN Wrapped("getDownloadStream", fileData,
                                   "Failed to get download stream: ",
                                   res.message, <<call, call>>)
                      ELSE OpRecord("getDownloadStream", fileData, NoError,
                                    res.value, <<call>>,
                                    <<Log("info", "Retrieved download stream")>>)
    /\ UNCHANGED <<config_, bucket, publicEndpoint, init, del>>
    /\ StoreUnchanged

GetDownloadStream(fileData, fault) ==
    /\ IF Falsy(OptFileKey(fileData))
       THEN op' = Rejected("getDownloadStream", fileData, "No file key provided")
       ELSE LET res == GetObjectCall(fileData.fileKey, fault)
                call == ClientCall("getObject", bucket, fileData.fileKey, 0,
                                   <<>>, res)
            IN  op' = IF ~res.ok
                      THEN Wrapped("getDownloadStream", fileData,
                                   "Failed to get download stream: ",
                                   res.message, <<call>>)
                      ELSE OpRecord("getDownloadStream", fileData, NoError,
                                    res.value, <<call>>,
                                    <<Log("info", "Retrieved download stream")>>)
    /\ UNCHANGED <<config_, bucket, publicEndpoint, init, del>>
    /\ StoreUnchanged

(***************************************************************************)
(* delete(): one loop iteration per step, one await (removeObject) each.   *)
(* del is the frame of the call in progress; the call's record goes to op  *)
(* when it returns or throws.                                              *)
(***************************************************************************)
DeleteRecord(fileData, error, calls, logs) ==
    OpRecord("delete", fileData, error, <<>>, calls, logs)

\* Array.isArray(fileData) ? fileData : [fileData], then the loop is entered
DeleteCall(fileData) ==
    /\ ~del.active
    /\ LET files == IF fileData.isArray THEN fileData.list
                    ELSE <<fileData.single>>
       IN  IF files = <<>>
           THEN /\ op' = DeleteRecord(fileData, NoError, <<>>, <<>>)
                /\ UNCHANGED del
           ELSE /\ del' = [active |-> TRUE, arg |-> fileData, files |-> files,
                           idx |-> 1, calls |-> <<>>, logs |-> <<>>]
                /\ op' = NoOp   \* nothing returned yet
    /\ UNCHANGED <<config_, bucket, publicEndpoint, init>>
    /\ StoreUnchanged

\* DeleteCatch throwing the wrapper the other operations throw
DeleteCatch_Rethrow(message) ==
    MedusaError("UNEXPECTED_STATE", "Failed to delete file: ", message)

\* LoopEnds leaving the loop at the first removeObject that fails
LoopEnds_BreakOnFailure(idx, files, failed) == idx = Len(files) \/ failed

\* the catch block inside the loop: the failure is logged, nothing is thrown
DeleteCatch(message) == NoError

\* whether the for loop is left after the iteration for files[idx]
LoopEnds(idx, files, failed) == idx = Len(files)

\* the body of the for loop for files[idx]
DeleteStep(fault) ==
    /\ del.active
    /\ LET file == del.files[del.idx]
       IN  IF Falsy(OptFileKey(file))
           THEN /\ op' = DeleteRecord(del.arg,
                             MedusaError("INVALID_DATA", "No file key provided", ""),
                             del.calls, del.logs)
                /\ del' = NoDelete
                /\ StoreUnchanged
           ELSE LET res == RemoveObjectCall(fault)
                    entry == [item |-> del.idx,
                              call |-> ClientCall("removeObject", bucket,
                                                  file.fileKey, 0, <<>>, res),
                              existed |-> file.fileKey \in DOMAIN objects]
                    calls == Append(del.calls, entry)
                    logs == Append(del.logs,
                               IF res.ok
                               THEN Log("info", "Successfully deleted file")
                               ELSE Log("warn", "Failed to delete file"))
                    thrown == IF res.ok THEN NoError ELSE DeleteCatch(res.message)
                IN  /\ IF thrown # NoError \/ LoopEnds(del.idx, del.files, ~res.ok)
                       THEN /\ op' = DeleteRecord(del.arg, thrown, calls, logs)
                            /\ del' = NoDelete
                       ELSE /\ del' = [del EXCEPT !.idx = @ + 1,
                                                  !.calls = calls,
                                                  !.logs = logs]
                            /\ UNCHANGED op
                    /\ objects' = IF res.ok THEN StoreRemove(objects, file.fileKey)
                                  ELSE objects
                    /\ uploaded' = IF res.ok THEN StoreRemove(uploaded, file.fileKey)
                                   ELSE uploaded
                    /\ UNCHANGED <<bucketExists, policy>>
    /\ UNCHANGED <<config_, bucket, publicEndpoint, init>>

(***************************************************************************)
(* Specifications                                                          *)
(***************************************************************************)
StreamFaults == {NoFault, "StreamError"}

\* a step of the constructor's background initializeBucket()
InitializeBucket ==
    \/ \E fault \in Faults : InitBucketExists(fault)
    \/ \E fault \in Faults : InitMakeBucket(fault)
    \/ \E fault \in Faults : InitSetPolicyNew(fault)
    \/ \E fault \in Faults : InitSetPolicyExisting(fault)

Uploads ==
    \E file \in UploadArgs, u \in Ulids, fault \in Faults : Upload(file, u, fault)

Reads ==
    \/ \E fileData \in FileArgs, fault \in Faults :
          GetPresignedDownloadUrl(fileData, fault)
    \/ \E fileData \in UploadUrlArgs, fault \in Faults :
          GetPresignedUploadUrl(fileData, fault)
    \/ \E fileData \in FileArgs, fault \in Faults, streamFault \in StreamFaults :
          GetAsBuffer(fileData, fault, streamFault)
    \/ \E fileData \in FileArgs, fault \in Faults :
          GetDownloadStream(fileData, fault)

\* bucket bootstrapping interleaved with the uploads of callers
NextBoot == InitializeBucket \/ Uploads

SpecBoot == Init /\ [][NextBoot]_vars

\* the six operations on single files, called by a caller that awaits
\* each call
Next ==
    \/ ~del.active /\ Uploads
    \/ ~del.active /\ Reads
    \/ \E fileData \in {d \in DeleteArgs : ~d.isArray} : DeleteCall(fileData)
    \/ \E fault \in Faults : DeleteStep(fault)

Spec == Init /\ [][Next]_vars

\* the six operations with delete() taking lists; uploads of one content
NextLists ==
    \/ /\ ~del.active
       /\ \E file \in {f \in UploadArgs : /\ f.content = <<65>>
                                            /\ f.filename # <<".", "h">>},
             u \in Ulids, fault \in Faults : Upload(file, u, fault)
    \/ ~del.active /\ Reads
    \/ \E fileData \in DeleteArgs : DeleteCall(fileData)
    \/ \E fault \in Faults : DeleteStep(fault)

SpecLists == Init /\ [][NextLists]_vars

(***************************************************************************)
(* Properties                                                              *)
(***************************************************************************)
Failed(o, type) == o.error.kind = "MedusaError" /\ o.error.type = type

Returned(o) == o.error = NoError

\* the files a delete() call was given
FilesOf(fileData) ==
    IF fileData.isArray THEN fileData.list ELSE <<fileData.single>>

\* a field that is absent or the empty string
Missing(v) == v \in {Undefined, <<>>}

UploadLacksFilename(o) ==
    o.name = "upload" /\ (o.arg.isNil \/ Missing(o.arg.filename))

\* C1: an upload() whose argument is absent, or whose filename is absent or
\* empty, fails with INVALID_DATA, issues no putObject, and leaves the
\* object store as it was.
C1_UploadWithoutFilenameRejected ==
    [][ UploadLacksFilename(op')
        => /\ Failed(op', "INVALID_DATA")
           /\ op'.calls = <<>>
           /\ objects' = objects
           /\ bucketExists' = bucketExists
           /\ policy' = policy ]_vars

C1_Witness ==
    /\ op.name = "upload"
    /\ ~op.arg.isNil
    /\ op.arg.filename = <<>>
    /\ Failed(op, "INVALID_DATA")
    /\ objects # EmptyStore

\* the file the running delete() is at, and what the call has logged and
\* issued after the iteration
CurrentFile == del.files[del.idx]

LogsAfterStep == IF del'.active THEN del'.logs ELSE op'.logs

CallsAfterStep == IF del'.active THEN del'.calls ELSE op'.calls

\* C2: when delete() comes to a file with a non-empty fileKey that names
\* no object, or whose removeObject fails, it writes one log entry, raises
\* no error, and every object of the store is still there.
C2_DeleteUnknownKeyLogsAndReturns ==
    [][ ( /\ del.active
          /\ ~CurrentFile.isNil
          /\ ~Missing(CurrentFile.fileKey)
          /\ \/ CurrentFile.fileKey \notin DOMAIN objects
             \/ ~CallsAfterStep[Len(CallsAfterStep)].call.ok )
        => /\ objects' = objects
           /\ Len(LogsAfterStep) = Len(del.logs) + 1
           /\ Len(CallsAfterStep) = Len(del.calls) + 1
           /\ del'.active \/ Returned(op')
           /\ del'.active => del'.idx = del.idx + 1 ]_vars

C2_Witness ==
    /\ op.name = "delete"
    /\ ~op.arg.isArray
    /\ op.arg.single = FileDTO(UnknownKey)
    /\ Returned(op)
    /\ Len(op.calls) = 1
    /\ op.calls[1].call.ok
    /\ ~op.calls[1].existed
    /\ Len(op.logs) = 1
    /\ objects # EmptyStore

\* the client calls of a call record, delete() or other
ClientCallsOf(o) ==
    IF o.name = "delete" THEN [i \in DOMAIN o.calls |-> o.calls[i].call]
    ELSE o.calls

WrapsClientErrors(o) ==
    \A i \in DOMAIN ClientCallsOf(o) :
        ~ClientCallsOf(o)[i].ok
        => /\ Failed(o, "UNEXPECTED_STATE")
           /\ o.error.cause = ClientCallsOf(o)[i].message

\* C3 as stated: in each of the six operations, delete() included, a
\* failing client call makes the operation fail with UNEXPECTED_STATE and a
\* message holding the client's message.
C3_AllSixWrapClientErrors == WrapsClientErrors(op)

\* C3, amended: upload, getPresignedDownloadUrl, getPresignedUploadUrl,
\* getAsBuffer and getDownloadStream fail with UNEXPECTED_STATE and a
\* message holding the client's message whenever their client call fails;
\* delete() logs a failing removeObject as a warning and raises no
\* UNEXPECTED_STATE error for it.
C3_FiveWrapClientErrorsDeleteLogs ==
    /\ op.name # "delete" => WrapsClientErrors(op)
    /\ op.name = "delete"
       => /\ ~Failed(op, "UNEXPECTED_STATE")
          /\ \A i \in DOMAIN op.calls :
                ~op.calls[i].call.ok => op.logs[i].level = "warn"

C3_Witness ==
    /\ op.name = "getAsBuffer"
    /\ Len(op.calls) = 1
    /\ op.calls[1].message = "NoSuchKey"
    /\ Failed(op, "UNEXPECTED_STATE")
    /\ op.error.cause = "NoSuchKey"

\* the bucket the provider was configured with
ConfiguredBucket ==
    IF Missing(config_.bucket) THEN <<"medusa-media">> ELSE config_.bucket

\* C4: a presigned URL the provider returns was asked of the client once,
\* for the configured bucket and the requested key, with an expiry of
\* 86400 seconds (download) or 900 seconds (upload), whatever the request
\* and whatever happened before.
C4_PresignedUrlHasFixedExpiry ==
    /\ (op.name = "getPresignedDownloadUrl" /\ Returned(op))
       => /\ Len(op.calls) = 1
          /\ op.calls[1].method = "presignedGetObject"
          /\ op.calls[1].bucket = ConfiguredBucket
          /\ op.calls[1].key = op.arg.fileKey
          /\ op.calls[1].expiry = 86400
          /\ op.result = [signed |-> "GET", bucket |-> ConfiguredBucket,
                          key |-> op.arg.fileKey, expiry |-> 86400]
    /\ (op.name = "getPresignedUploadUrl" /\ Returned(op))
       => /\ Len(op.calls) = 1
          /\ op.calls[1].method = "presignedPutObject"
          /\ op.calls[1].bucket = ConfiguredBucket
          /\ op.calls[1].key = op.arg.filename
          /\ op.calls[1].expiry = 900
          /\ op.result.key = op.arg.filename
          /\ op.result.url = [signed |-> "PUT", bucket |-> ConfiguredBucket,
                              key |-> op.arg.filename, expiry |-> 900]

C4_Witness ==
    /\ op.name = "getPresignedUploadUrl"
    /\ Returned(op)
    /\ op.result.url.expiry = 900
    /\ op.result.url.bucket = <<"medusa-media">>
    /\ objects # EmptyStore

LacksFileKey(fileData) == fileData.isNil \/ Missing(fileData.fileKey)

\* C5: getPresignedDownloadUrl, getAsBuffer, getDownloadStream and delete
\* of a single file, called without an argument or without a fileKey, and
\* getPresignedUploadUrl called without a filename, fail with INVALID_DATA
\* and call no method of the client.
C5_RequiredFieldsValidatedFirst ==
    ( \/ /\ op.name \in {"getPresignedDownloadUrl", "getAsBuffer",
                         "getDownloadStream"}
         /\ LacksFileKey(op.arg)
      \/ /\ op.name = "delete"
         /\ ~op.arg.isArray
         /\ LacksFileKey(op.arg.single)
      \/ /\ op.name = "getPresignedUploadUrl"
         /\ (op.arg.isNil \/ Missing(op.arg.filename)) )
    => /\ Failed(op, "INVALID_DATA")
       /\ op.calls = <<>>

C5_Witness ==
    /\ op.name = "getAsBuffer"
    /\ op.arg.isNil
    /\ Failed(op, "INVALID_DATA")
    /\ op.calls = <<>>
    /\ bucketExists

\* a step in which an upload()'s putObject reaches the store
PutObjectReachesStore ==
    op' # op /\ op'.name = "upload" /\ op'.calls # <<>>

\* C6: however initializeBucket() and upload() calls interleave, an
\* upload() returns a url and key only if the bucket existed when its
\* putObject reached the store; one that reaches the store before the
\* bucket exists fails with UNEXPECTED_STATE and writes no object.
C6_BucketExistsBeforeObjectsWritten ==
    [][ PutObjectReachesStore
        => /\ Returned(op') => bucketExists
           /\ ~bucketExists
              => /\ Failed(op', "UNEXPECTED_STATE")
                 /\ objects' = objects ]_vars

C6_Witness ==
    /\ init.pc = "makeBucket"
    /\ ~bucketExists
    /\ op.name = "upload"
    /\ Failed(op, "UNEXPECTED_STATE")
    /\ op.error.cause = "NoSuchBucket"

ClientMethodOf(name) ==
    CASE name = "upload" -> "putObject"
      [] name = "getPresignedDownloadUrl" -> "presignedGetObject"
      [] name = "getPresignedUploadUrl" -> "presignedPutObject"
      [] name \in {"getAsBuffer", "getDownloadStream"} -> "getObject"

\* removeObject calls: the i-th is for the i-th file given, none is repeated
OncePerFile(files, calls) ==
    /\ Len(calls) <= Len(files)
    /\ \A i \in DOMAIN calls :
          /\ calls[i].item = i
          /\ calls[i].call.method = "removeObject"
          /\ calls[i].call.key = files[i].fileKey

\* C7: a call of upload, getPresignedDownloadUrl, getPresignedUploadUrl,
\* getAsBuffer or getDownloadStream calls its client method at most once,
\* failed or not; a call of delete calls removeObject at most once for each
\* file given, in the order given, and never again for a file whose
\* removeObject failed.
C7_NoRetry ==
    /\ op.name \in {"upload", "getPresignedDownloadUrl", "getPresignedUploadUrl",
                    "getAsBuffer", "getDownloadStream"}
       => /\ Len(op.calls) <= 1
          /\ \A i \in DOMAIN op.calls : op.calls[i].method = ClientMethodOf(op.name)
    /\ op.name = "delete" => OncePerFile(FilesOf(op.arg), op.calls)
    /\ del.active
       => /\ OncePerFile(del.files, del.calls)
          /\ Len(del.calls) = del.idx - 1

C7_Witness ==
    /\ op.name = "delete"
    /\ Len(op.calls) = 3
    /\ ~op.calls[1].call.ok
    /\ op.calls[2].call.key = op.calls[1].call.key
    /\ op.calls[2].call.ok
    /\ op.calls[2].existed

InitCalled(method) ==
    \E i \in DOMAIN init.calls : init.calls[i].method = method

InitCallFailed(method) ==
    \E i \in DOMAIN init.calls :
        init.calls[i].method = method /\ ~init.calls[i].ok

\* C8: initializeBucket() calls makeBucket only after bucketExists answered
\* false and never after it answered true; when it completes on a bucket
\* it created, the bucket exists with the public-read policy; on a bucket
\* that existed a failing setBucketPolicy is a warning and initializeBucket
\* completes; a failing bucketExists, makeBucket, or setBucketPolicy on the
\* new bucket makes it fail, which the constructor logs and nothing more.
C8_BucketBootstrapping ==
    /\ InitCalled("makeBucket")
       => /\ init.answered = "false"
          /\ init.calls[1] = [method |-> "bucketExists", ok |-> TRUE]
          /\ init.calls[2].method = "makeBucket"
    /\ init.answered = "true" => ~InitCalled("makeBucket")
    /\ (init.outcome = "resolved" /\ init.created)
       => bucketExists /\ policy = "public-read"
    /\ (init.answered = "true" /\ InitCallFailed("setBucketPolicy"))
       => /\ init.outcome = "resolved"
          /\ init.logs[Len(init.logs)].level = "warn"
    /\ ( \/ InitCallFailed("bucketExists")
         \/ InitCallFailed("makeBucket")
         \/ init.answered = "false" /\ InitCallFailed("setBucketPolicy") )
       => /\ init.pc = "failed"
          /\ init.outcome = "rejected-and-logged"
          /\ init.logs[Len(init.logs)] =
                Log("error", "Failed to initialize MinIO bucket")

C8_Witness ==
    /\ init.created
    /\ init.outcome = "resolved"
    /\ Len(init.calls) = 3
    /\ policy = "public-read"
    /\ op.name = "upload"
    /\ Returned(op)

\* the part of a path after its last '/'
LastSegment(p) ==
    LET slashes == {i \in 1..Len(p) : p[i] = "/"}
    IN  IF slashes = {} THEN p ELSE SubSeq(p, Max(slashes) + 1, Len(p))

\* key is stem, '-', the ULID u, extension: stem and extension make up the
\* file name, the extension is empty or the file name's last '.' onwards
KeyWellFormed(key, filename, u) ==
    \E n \in 0..(Len(key) - 2) :
        /\ key[n + 1] = "-"
        /\ <<key[n + 2]>> = u
        /\ LET stem == SubSeq(key, 1, n)
               ext == SubSeq(key, n + 3, Len(key))
           IN  /\ stem \o ext = LastSegment(filename)
               /\ ext # <<>>
                  => /\ ext[1] = "."
                     /\ \A i \in 2..Len(ext) : ext[i] # "."
                     /\ stem # <<>>
               /\ ext = <<>>
                  => \/ \A i \in 2..Len(stem) : stem[i] # "."
                     \/ stem = <<".", ".">>

\* what a returned upload() has written, and what it returned
UploadMatchesStore(o) ==
    (o.name = "upload" /\ Returned(o))
    => /\ Len(o.calls) = 1
       /\ o.calls[1].method = "putObject"
       /\ o.calls[1].bucket = ConfiguredBucket
       /\ o.calls[1].key = o.result.key
       /\ o.calls[1].content =
             [i \in 1..Len(o.arg.content) |-> o.arg.content[i] % 256]
       /\ KeyWellFormed(o.result.key, o.arg.filename, o.result.ulid)
       /\ o.result.url =
             publicEndpoint \o <<"/">> \o ConfiguredBucket \o <<"/">> \o o.result.key

\* getAsBuffer returns what the last upload() of the key handed over
ReadsBackUpload ==
    (op.name = "getAsBuffer" /\ Returned(op))
    => /\ op.arg.fileKey \in DOMAIN uploaded
       /\ op.result = uploaded[op.arg.fileKey].content

\* C9: an upload() that returns {url, key} has written exactly one object,
\* into the configured bucket, under the returned key; the key is the file
\* name's stem, '-', the generated ULID and the extension; the url is
\* publicEndpoint/bucket/key; a later getAsBuffer of the key, no delete in
\* between, returns the bytes uploaded; and an upload whose ULID differs
\* from those of the objects in the store overwrites none of them.
C9_UploadResultMatchesStore ==
    [][ /\ UploadMatchesStore(op')
        /\ ReadsBackUpload'
        /\ (op' # op /\ op'.name = "upload" /\ Returned(op'))
           => /\ DOMAIN objects' = DOMAIN objects \cup {op'.result.key}
              /\ objects'[op'.result.key] = op'.calls[1].content
              /\ \A k \in DOMAIN objects :
                    k # op'.result.key => objects'[k] = objects[k]
              /\ (\A k \in DOMAIN uploaded :
                     uploaded[k].ulid # op'.result.ulid)
                 => op'.result.key \notin DOMAIN objects ]_vars

C9_Witness ==
    /\ op.name = "getAsBuffer"
    /\ Returned(op)
    /\ op.result = <<255, 44>>
    /\ Cardinality(DOMAIN objects) = 2
    /\ \A k \in DOMAIN uploaded :
          SubSeq(k, 1, 1) = <<"a">> /\ k[Len(k)] = "p"

\* the first file of the list without a fileKey, 0 if there is none
FirstWithoutKey(files) ==
    LET lacking == {i \in DOMAIN files : LacksFileKey(files[i])}
    IN  IF lacking = {} THEN 0
        ELSE CHOOSE i \in lacking : \A j \in lacking : i <= j

\* C10: delete() of a list takes the files in list order; a removeObject
\* that fails does not keep the later files from being tried; at a file
\* without fileKey delete() fails with INVALID_DATA having called
\* removeObject for exactly the files before it, which are removed by then,
\* and for none after it.
C10_DeleteListInOrder ==
    op.name = "delete"
    => LET files == FilesOf(op.arg)
           n == FirstWithoutKey(files)
       IN  /\ n = 0 => Returned(op) /\ Len(op.calls) = Len(files)
           /\ n > 0 => Failed(op, "INVALID_DATA") /\ Len(op.calls) = n - 1
           /\ \A i \in DOMAIN op.calls :
                 /\ op.calls[i].item = i
                 /\ op.calls[i].call.key = files[i].fileKey
                 /\ op.calls[i].call.ok
                    => op.calls[i].call.key \notin DOMAIN objects

C10_Witness ==
    /\ op.name = "delete"
    /\ op.arg.isArray
    /\ Len(op.arg.list) = 3
    /\ Failed(op, "INVALID_DATA")
    /\ Len(op.calls) = 1
    /\ op.calls[1].existed
    /\ op.calls[1].call.ok
    /\ ~LacksFileKey(op.arg.list[3])
    /\ op.arg.list[3].fileKey \in DOMAIN objects

====
